---- MODULE Spec2Model ----
\* Model of the lab pool ("hub") of haaukins: NewHub/init, addLab, Get,
\* Available, Close and the channel-backed semaphore (package lab), and of
\* the exercise life cycle: Create, Start, Stop, Close, Reset (package
\* exercise).  The two parts share no state; Spec and InitSpec run the hub,
\* ExSpec runs one exercise.
\*
\* Goroutines are anonymous, so the addLab tasks are kept as a count per
\* program position ("tasks") and the in-flight Get calls as a set of frames
\* ("gets").  A lab is given its number when it first becomes visible outside
\* the task that built it (enqueue, drop, or hand-over to the asynchronous
\* closer); numbers are therefore handed out in that order.
\*
\* Environment: Get and Close are called only on a hub that NewHub returned;
\* Close is called once, at a moment when no Get call is in flight, and no Get
\* call begins after it.  addLab tasks that are still running when Close
\* begins keep running.
EXTENDS Integers, Sequences, FiniteSets, TLC

\* ---------------------------------------------------------------- bounds
MaxWarm == 6        \* largest "available" argument tried by NewHub
MaxCap == 6         \* largest "cap" argument tried by NewHub
MaxGets == 3        \* Get calls made over the life of the hub
MaxConc == 2        \* Get calls in flight at the same time
MaxFail == 1        \* NewLab / Start calls that return an error
MaxContainers == 2  \* container specs in the exercise's blueprint
MaxVMs == 1         \* VM specs in the exercise's blueprint
MaxSuffix == 2      \* IP suffixes the network hands out: 1..MaxSuffix
MaxOps == 4         \* life-cycle calls made on the exercise

\* ------------------------------------------------------ program constants
BUFFERSIZE == 5
createLimit == 3

TaskPcs == {"check", "claimMax", "claimCreate", "newLab", "start", "send",
            "inc", "release"}

VARIABLES
  hubst,        \* "new" | "rejected" | "init" | "ready": progress of NewHub
  available,    \* NewHub's argument: warm size
  cap,          \* NewHub's argument: hard cap
  createSema,   \* len(h.createSema.r)
  maximumSema,  \* len(h.maximumSema.r)
  buffer,       \* contents of h.buffer, oldest first
  closed,       \* h.buffer has been closed
  numbLabs,     \* h.numbLabs
  labs,         \* h.labs
  tasks,        \* number of addLab goroutines at each position
  wg,           \* init's WaitGroup counter
  gets,         \* frames of the Get calls in flight: [pc, lab, snap]
  getLog,       \* per Get call, in call order: the lab it received, 0 for MaximumLabsErr
  returned,     \* labs returned by Get, in return order
  overlap,      \* some Get call began while another was in flight
  nextLab,      \* number of labs numbered so far
  factoryCalls, \* calls of labHost.NewLab so far
  failures,     \* NewLab / Start calls that failed so far
  dropped,      \* labs that took the default branch of addLab's select
  closeCalls,   \* per lab: goroutines spawned to call lab.Close()
  halfClosing,  \* addLab's lab.Close() goroutines that have not finished
  closeWg,      \* Close's WaitGroup counter: its lab.Close() goroutines not finished
  closest,      \* position of the Close call: "idle" | "range" | "drain" | "wait" | "done"
  closeSnap,    \* h.labs as read by Close's first range loop
  bufAtClose,   \* contents of h.buffer when Close closed it
  closeFailed,  \* some lab.Close() returned an error
  fault,        \* the process panicked (send on closed channel)
  \* ---- exercise
  exst,         \* "none" | "built": the exercise has been constructed
  nCont,        \* len(conf.DockerConfs)
  nVm,          \* len(conf.VBoxConfig)
  machines,     \* e.machines: instances [kind, pos, gen]
  ips,          \* e.ips (meaningful when ipsSet)
  ipsSet,       \* e.ips != nil
  dnsRecords,   \* e.dnsRecords: the address each record resolved to
  running,      \* instances whose last Start succeeded and that were not closed since
  gen,          \* Create calls made so far
  ops,          \* life-cycle calls made so far
  lastOp        \* the last life-cycle call: what it did and what it returned

vars == <<hubst, available, cap, createSema, maximumSema, buffer, closed,
          numbLabs, labs, tasks, wg, gets, getLog, returned, overlap, nextLab,
          factoryCalls, failures, dropped, closeCalls, halfClosing, closeWg,
          closest, closeSnap, bufAtClose, closeFailed, fault,
          exst, nCont, nVm, machines, ips, ipsSet, dnsRecords, running, gen,
          ops, lastOp>>

exVars == <<exst, nCont, nVm, machines, ips, ipsSet, dnsRecords, running, gen,
            ops, lastOp>>
hubAll == <<hubst, available, cap, createSema, maximumSema, buffer, closed,
            numbLabs, labs, tasks, wg, gets, getLog, returned, overlap,
            nextLab, factoryCalls, failures, dropped, closeCalls, halfClosing,
            closeWg, closest, closeSnap, bufAtClose, closeFailed, fault>>

hubVars == <<hubst, available, cap>>
closeVars == <<closeWg, closest, closeSnap, bufAtClose>>
labCloseVars == <<closeCalls, halfClosing, closeFailed>>
getVars == <<gets, getLog, returned, overlap, labs>>

\* ------------------------------------------------------------- semaphore
OnePermitTooMany(n) == n + 1
\* newSemaphore(n): a channel of capacity n filled with n permits.
newSemaphore(n) == n

\* semaphore.available(): len(s.r)
SemAvailable(s) == s

ClaimsWithoutWaiting(s) == TRUE
\* semaphore.claim(): <-s.r, enabled only when a permit is in the channel.
CanClaim(s) == s > 0

ClaimKeepsPermit(s) == s
Claim(s) == s - 1

ReleaseLosesPermit(s) == s
Release(s) == s + 1

\* sync.WaitGroup.Wait(): returns once the counter is zero.
WaitNeverBlocks(n) == TRUE
WaitDone(n) == n = 0

\* ---------------------------------------------------------------- helpers
Move(from, to) == [tasks EXCEPT ![from] = @ - 1, ![to] = @ + 1]
Leave(from) == [tasks EXCEPT ![from] = @ - 1]
SpawnsOneMore(t, n) == [t EXCEPT !["check"] = @ + n + 1]
\* go func() { ... h.addLab() ... }(), n times
Spawn(t, n) == [t EXCEPT !["check"] = @ + n]
NoTasks == [p \in TaskPcs |-> 0]
InFlight == tasks["check"] + tasks["claimMax"] + tasks["claimCreate"]
            + tasks["newLab"] + tasks["start"] + tasks["send"]
            + tasks["inc"] + tasks["release"]
SeqSet(s) == {s[i] : i \in 1..Len(s)}

\* No life-cycle call made yet.
NoOp == [name |-> "none", err |-> "nil", at |-> 0, started |-> <<>>,
         closedM |-> <<>>, conn |-> <<>>]

\* ------------------------------------------------------------------ Init
Init ==
  /\ hubst = "new" /\ available = 0 /\ cap = 0
  /\ createSema = 0 /\ maximumSema = 0
  /\ buffer = <<>> /\ closed = FALSE /\ numbLabs = 0 /\ labs = <<>>
  /\ tasks = NoTasks /\ wg = 0
  /\ gets = {} /\ getLog = <<>> /\ returned = <<>> /\ overlap = FALSE
  /\ nextLab = 0 /\ factoryCalls = 0 /\ failures = 0 /\ dropped = {}
  /\ closeCalls = <<>> /\ halfClosing = 0
  /\ closeWg = 0 /\ closest = "idle" /\ closeSnap = <<>> /\ bufAtClose = <<>>
  /\ closeFailed = FALSE /\ fault = FALSE
  /\ exst = "none" /\ nCont = 0 /\ nVm = 0
  /\ machines = <<>> /\ ips = <<>> /\ ipsSet = FALSE /\ dnsRecords = <<>>
  /\ running = {} /\ gen = 0 /\ ops = 0 /\ lastOp = NoOp

\* ---------------------------------------------------------------- NewHub
AcceptsOneTooMany(a, c) == a > c + 1
SizeRejected(a, c) == a > c

InitOneShort(a) == IF a > 0 THEN a - 1 ELSE 0
\* init: one goroutine per warm lab, wg.Add(available)
InitTasks(a) == a

\* NewHub up to the point where init has spawned its goroutines.
NewHub ==
  /\ UNCHANGED exVars
  /\ hubst = "new" /\ ~fault
  /\ \E a \in 0..MaxWarm, c \in 0..MaxCap :
       /\ available' = a /\ cap' = c
       /\ IF SizeRejected(a, c)
          THEN /\ hubst' = "rejected"
               /\ UNCHANGED <<createSema, maximumSema, tasks, wg>>
          ELSE /\ hubst' = "init"
               /\ createSema' = newSemaphore(createLimit)
               /\ maximumSema' = newSemaphore(c)
               /\ tasks' = Spawn(NoTasks, InitTasks(a))
               /\ wg' = InitTasks(a)
  /\ UNCHANGED <<buffer, closed, numbLabs, nextLab, factoryCalls, failures,
                 dropped, fault>>
  /\ UNCHANGED getVars /\ UNCHANGED closeVars /\ UNCHANGED labCloseVars

\* wg.Wait() in init returns, then NewHub returns (h, nil).
InitReturn ==
  /\ UNCHANGED exVars
  /\ hubst = "init" /\ ~fault
  /\ WaitDone(wg)
  /\ hubst' = "ready"
  /\ UNCHANGED <<available, cap, createSema, maximumSema, buffer, closed,
                 numbLabs, tasks, wg, nextLab, factoryCalls, failures,
                 dropped, fault>>
  /\ UNCHANGED getVars /\ UNCHANGED closeVars /\ UNCHANGED labCloseVars

\* ---------------------------------------------------------------- addLab
\* The goroutine that ran addLab ends; init's goroutines also call wg.Done().
TaskEnd == IF hubst = "init" THEN wg - 1 ELSE wg

\* if h.maximumSema.available() == 0 { return MaximumLabsErr }
AddLabCheck ==
  /\ UNCHANGED exVars
  /\ ~fault /\ tasks["check"] > 0
  /\ IF SemAvailable(maximumSema) = 0
     THEN tasks' = Leave("check") /\ wg' = TaskEnd
     ELSE tasks' = Move("check", "claimMax") /\ wg' = wg
  /\ UNCHANGED <<createSema, maximumSema, buffer, closed, numbLabs, nextLab,
                 factoryCalls, failures, dropped, fault>>
  /\ UNCHANGED hubVars /\ UNCHANGED getVars /\ UNCHANGED closeVars
  /\ UNCHANGED labCloseVars

\* h.maximumSema.claim()
AddLabClaimMax ==
  /\ UNCHANGED exVars
  /\ ~fault /\ tasks["claimMax"] > 0
  /\ CanClaim(maximumSema)
  /\ maximumSema' = Claim(maximumSema)
  /\ tasks' = Move("claimMax", "claimCreate")
  /\ UNCHANGED <<createSema, buffer, closed, numbLabs, wg, nextLab,
                 factoryCalls, failures, dropped, fault>>
  /\ UNCHANGED hubVars /\ UNCHANGED getVars /\ UNCHANGED closeVars
  /\ UNCHANGED labCloseVars

\* h.createSema.claim(); defer h.createSema.release()
AddLabClaimCreate ==
  /\ UNCHANGED exVars
  /\ ~fault /\ tasks["claimCreate"] > 0
  /\ CanClaim(createSema)
  /\ createSema' = Claim(createSema)
  /\ tasks' = Move("claimCreate", "newLab")
  /\ UNCHANGED <<maximumSema, buffer, closed, numbLabs, wg, nextLab,
                 factoryCalls, failures, dropped, fault>>
  /\ UNCHANGED hubVars /\ UNCHANGED getVars /\ UNCHANGED closeVars
  /\ UNCHANGED labCloseVars

\* lab, err := h.labHost.NewLab(...); if err != nil { return err }
AddLabNewLab ==
  /\ UNCHANGED exVars
  /\ ~fault /\ tasks["newLab"] > 0
  /\ factoryCalls' = factoryCalls + 1
  /\ \/ tasks' = Move("newLab", "start") /\ failures' = failures
     \/ /\ failures < MaxFail
        /\ failures' = failures + 1
        /\ tasks' = Move("newLab", "release")
  /\ UNCHANGED <<createSema, maximumSema, buffer, closed, numbLabs, wg,
                 nextLab, dropped, fault>>
  /\ UNCHANGED hubVars /\ UNCHANGED getVars /\ UNCHANGED closeVars
  /\ UNCHANGED labCloseVars

FallsThroughToSend == "send"
\* "return err" after a failed Start: only the deferred release is left to run
AfterStartFailure == "release"

\* if err := lab.Start(h.ctx); err != nil { go lab.Close(); return err }
AddLabStart ==
  /\ UNCHANGED exVars
  /\ ~fault /\ tasks["start"] > 0
  /\ \/ /\ tasks' = Move("start", "send")
        /\ UNCHANGED <<failures, nextLab>> /\ UNCHANGED labCloseVars
     \/ /\ failures < MaxFail
        /\ failures' = failures + 1
        /\ nextLab' = nextLab + 1
        /\ closeCalls' = Append(closeCalls, 1)
        /\ halfClosing' = halfClosing + 1
        /\ closeFailed' = closeFailed
        /\ tasks' = Move("start", AfterStartFailure)
  /\ UNCHANGED <<createSema, maximumSema, buffer, closed, numbLabs, wg,
                 factoryCalls, dropped, fault>>
  /\ UNCHANGED hubVars /\ UNCHANGED getVars /\ UNCHANGED closeVars

\* select { case h.buffer <- lab: ... default: }
\* A send on a closed channel panics; a full buffer takes the default branch.
AddLabSend ==
  /\ UNCHANGED exVars
  /\ ~fault /\ tasks["send"] > 0
  /\ IF closed
     THEN /\ fault' = TRUE
          /\ UNCHANGED <<buffer, tasks, nextLab, dropped, closeCalls>>
     ELSE /\ fault' = fault
          /\ nextLab' = nextLab + 1
          /\ closeCalls' = Append(closeCalls, 0)
          /\ IF Len(buffer) < available
             THEN /\ buffer' = Append(buffer, nextLab + 1)
                  /\ tasks' = Move("send", "inc")
                  /\ dropped' = dropped
             ELSE /\ dropped' = dropped \cup {nextLab + 1}
                  /\ tasks' = Move("send", "release")
                  /\ buffer' = buffer
  /\ UNCHANGED <<createSema, maximumSema, closed, numbLabs, wg, factoryCalls,
                 failures, halfClosing, closeFailed>>
  /\ UNCHANGED hubVars /\ UNCHANGED getVars /\ UNCHANGED closeVars

\* atomic.AddInt32(&h.numbLabs, 1)
AddLabInc ==
  /\ UNCHANGED exVars
  /\ ~fault /\ tasks["inc"] > 0
  /\ numbLabs' = numbLabs + 1
  /\ tasks' = Move("inc", "release")
  /\ UNCHANGED <<createSema, maximumSema, buffer, closed, wg, nextLab,
                 factoryCalls, failures, dropped, fault>>
  /\ UNCHANGED hubVars /\ UNCHANGED getVars /\ UNCHANGED closeVars
  /\ UNCHANGED labCloseVars

\* the deferred h.createSema.release(), then addLab returns
AddLabRelease ==
  /\ UNCHANGED exVars
  /\ ~fault /\ tasks["release"] > 0
  /\ createSema' = Release(createSema)
  /\ tasks' = Leave("release")
  /\ wg' = TaskEnd
  /\ UNCHANGED <<maximumSema, buffer, closed, numbLabs, nextLab, factoryCalls,
                 failures, dropped, fault>>
  /\ UNCHANGED hubVars /\ UNCHANGED getVars /\ UNCHANGED closeVars
  /\ UNCHANGED labCloseVars

AddLab ==
  \/ AddLabCheck \/ AddLabClaimMax \/ AddLabClaimCreate \/ AddLabNewLab
  \/ AddLabStart \/ AddLabSend \/ AddLabInc \/ AddLabRelease

\* ------------------------------------------------------------------- Get
ReplenishAtMark(n) == n <= BUFFERSIZE
\* if atomic.LoadInt32(&h.numbLabs) < BUFFERSIZE
ShouldReplenish(n) == n < BUFFERSIZE

\* select { case lab := <-h.buffer: ... default: return nil, MaximumLabsErr }
GetSelect ==
  /\ UNCHANGED exVars
  /\ ~fault /\ hubst = "ready" /\ closest = "idle"
  /\ Len(getLog) < MaxGets /\ Cardinality(gets) < MaxConc
  /\ overlap' = (overlap \/ gets # {})
  /\ IF Len(buffer) > 0
     THEN /\ buffer' = Tail(buffer)
          /\ gets' = gets \cup {[pc |-> "dec", lab |-> Head(buffer), snap |-> <<>>]}
          /\ getLog' = Append(getLog, Head(buffer))
     ELSE /\ getLog' = Append(getLog, 0)
          /\ UNCHANGED <<buffer, gets>>
  /\ UNCHANGED <<createSema, maximumSema, closed, numbLabs, labs, tasks, wg,
                 returned, nextLab, factoryCalls, failures, dropped, fault>>
  /\ UNCHANGED hubVars /\ UNCHANGED closeVars /\ UNCHANGED labCloseVars

\* atomic.AddInt32(&h.numbLabs, -1)
GetDec ==
  /\ UNCHANGED exVars
  /\ ~fault
  /\ \E g \in gets :
       /\ g.pc = "dec"
       /\ numbLabs' = numbLabs - 1
       /\ gets' = (gets \ {g}) \cup {[g EXCEPT !.pc = "load"]}
  /\ UNCHANGED <<createSema, maximumSema, buffer, closed, labs, tasks, wg,
                 getLog, returned, overlap, nextLab, factoryCalls, failures, dropped,
                 fault>>
  /\ UNCHANGED hubVars /\ UNCHANGED closeVars /\ UNCHANGED labCloseVars

\* if atomic.LoadInt32(&h.numbLabs) < BUFFERSIZE { go func() { h.addLab() }() }
GetLoad ==
  /\ UNCHANGED exVars
  /\ ~fault
  /\ \E g \in gets :
       /\ g.pc = "load"
       /\ tasks' = IF ShouldReplenish(numbLabs) THEN Spawn(tasks, 1) ELSE tasks
       /\ gets' = (gets \ {g}) \cup {[g EXCEPT !.pc = "read"]}
  /\ UNCHANGED <<createSema, maximumSema, buffer, closed, numbLabs, labs, wg,
                 getLog, returned, overlap, nextLab, factoryCalls, failures, dropped,
                 fault>>
  /\ UNCHANGED hubVars /\ UNCHANGED closeVars /\ UNCHANGED labCloseVars

\* h.labs = append(h.labs, lab): the read of h.labs.  h.m is never locked, so
\* other Get calls may run between this read and the write below.
GetRead ==
  /\ UNCHANGED exVars
  /\ ~fault
  /\ \E g \in gets :
       /\ g.pc = "read"
       /\ gets' = (gets \ {g}) \cup {[g EXCEPT !.pc = "write", !.snap = labs]}
  /\ UNCHANGED <<createSema, maximumSema, buffer, closed, numbLabs, labs,
                 tasks, wg, getLog, returned, overlap, nextLab, factoryCalls, failures,
                 dropped, fault>>
  /\ UNCHANGED hubVars /\ UNCHANGED closeVars /\ UNCHANGED labCloseVars

\* h.labs = append(h.labs, lab): the write of h.labs; return lab, nil
GetWrite ==
  /\ UNCHANGED exVars
  /\ ~fault
  /\ \E g \in gets :
       /\ g.pc = "write"
       /\ labs' = Append(g.snap, g.lab)
       /\ returned' = Append(returned, g.lab)
       /\ gets' = gets \ {g}
  /\ UNCHANGED <<createSema, maximumSema, buffer, closed, numbLabs, tasks, wg,
                 getLog, overlap, nextLab, factoryCalls, failures, dropped, fault>>
  /\ UNCHANGED hubVars /\ UNCHANGED closeVars /\ UNCHANGED labCloseVars

Get == GetSelect \/ GetDec \/ GetLoad \/ GetRead \/ GetWrite

\* ----------------------------------------------------------------- Close
\* One goroutine per lab of s calling lab.Close(), each counted by wg.Add(1).
SpawnClosers(s) ==
  /\ closeCalls' = [l \in DOMAIN closeCalls |->
                      IF l \in s THEN closeCalls[l] + 1 ELSE closeCalls[l]]
  /\ closeWg' = closeWg + Cardinality(s)

\* context.WithCancel + cancel() (no effect on the hub); close(h.buffer)
CloseBegin ==
  /\ UNCHANGED exVars
  /\ ~fault /\ hubst = "ready" /\ closest = "idle" /\ gets = {}
  /\ closed' = TRUE
  /\ bufAtClose' = buffer
  /\ closest' = "range"
  /\ UNCHANGED <<createSema, maximumSema, buffer, numbLabs, tasks, wg,
                 nextLab, factoryCalls, failures, dropped, closeWg, closeSnap,
                 fault>>
  /\ UNCHANGED hubVars /\ UNCHANGED getVars /\ UNCHANGED labCloseVars

\* for _, l := range h.labs { wg.Add(1); go func(l Lab) {...}(l) }
\* The range expression is evaluated once, when the loop starts.
CloseRange ==
  /\ UNCHANGED exVars
  /\ ~fault /\ closest = "range"
  /\ closeSnap' = labs
  /\ SpawnClosers(SeqSet(labs))
  /\ closest' = "drain"
  /\ UNCHANGED <<createSema, maximumSema, buffer, closed, numbLabs, tasks, wg,
                 nextLab, factoryCalls, failures, dropped, halfClosing,
                 bufAtClose, closeFailed, fault>>
  /\ UNCHANGED hubVars /\ UNCHANGED getVars

\* for l := range h.buffer { wg.Add(1); go func(l Lab) {...}(l) }
\* One iteration per step; the loop ends when the closed channel is empty.
CloseDrain ==
  /\ UNCHANGED exVars
  /\ ~fault /\ closest = "drain"
  /\ IF Len(buffer) > 0
     THEN /\ buffer' = Tail(buffer)
          /\ SpawnClosers({Head(buffer)})
          /\ closest' = closest
     ELSE /\ closest' = "wait"
          /\ UNCHANGED <<buffer, closeCalls, closeWg>>
  /\ UNCHANGED <<createSema, maximumSema, closed, numbLabs, tasks, wg,
                 nextLab, factoryCalls, failures, dropped, halfClosing,
                 closeSnap, bufAtClose, closeFailed, fault>>
  /\ UNCHANGED hubVars /\ UNCHANGED getVars

\* wg.Wait(); return nil
CloseReturn ==
  /\ UNCHANGED exVars
  /\ ~fault /\ closest = "wait"
  /\ WaitDone(closeWg)
  /\ closest' = "done"
  /\ UNCHANGED <<createSema, maximumSema, buffer, closed, numbLabs, tasks, wg,
                 nextLab, factoryCalls, failures, dropped, closeWg, closeSnap,
                 bufAtClose, fault>>
  /\ UNCHANGED hubVars /\ UNCHANGED getVars /\ UNCHANGED labCloseVars

\* A lab.Close() goroutine spawned by hub.Close finishes: the call returns,
\* with or without an error (only logged), then wg.Done().
HubLabClose ==
  /\ UNCHANGED exVars
  /\ ~fault /\ closeWg > 0
  /\ closeWg' = closeWg - 1
  /\ \E ok \in BOOLEAN : closeFailed' = (closeFailed \/ ~ok)
  /\ UNCHANGED <<createSema, maximumSema, buffer, closed, numbLabs, tasks, wg,
                 nextLab, factoryCalls, failures, dropped, closeCalls,
                 halfClosing, closest, closeSnap, bufAtClose, fault>>
  /\ UNCHANGED hubVars /\ UNCHANGED getVars

\* The lab.Close() goroutine addLab spawned after a failed Start finishes.
HalfLabClose ==
  /\ UNCHANGED exVars
  /\ ~fault /\ halfClosing > 0
  /\ halfClosing' = halfClosing - 1
  /\ UNCHANGED <<createSema, maximumSema, buffer, closed, numbLabs, tasks, wg,
                 nextLab, factoryCalls, failures, dropped, closeCalls,
                 closeFailed, fault>>
  /\ UNCHANGED hubVars /\ UNCHANGED getVars /\ UNCHANGED closeVars

Close == CloseBegin \/ CloseRange \/ CloseDrain \/ CloseReturn


\* -------------------------------------------------------------- exercise
\* The calls on one exercise are made one after the other (never two at a
\* time), so each call is one step.  A backend call (CreateContainer,
\* Connect, GetCopy, Start, Close) may fail; "j" below is the position of the
\* first machine whose call fails, 0 when none does.

\* The blueprint is fixed when the exercise is built; e.ips starts nil.
NewExercise ==
  /\ exst = "none"
  /\ exst' = "built"
  /\ \E c \in 0..MaxContainers, v \in 0..MaxVMs : nCont' = c /\ nVm' = v
  /\ UNCHANGED <<machines, ips, ipsSet, dnsRecords, running, gen, ops, lastOp>>
  /\ UNCHANGED hubAll

ContainersOnly(g) ==
  [i \in 1..nCont |-> [kind |-> "container", pos |-> i, gen |-> g]]
\* The local "machines" of a Create that ran to its end: one container per
\* spec (machines = append(machines, c)), then one VM per spec.
NewMachines(g) ==
  [i \in 1..(nCont + nVm) |->
     IF i <= nCont THEN [kind |-> "container", pos |-> i, gen |-> g]
                   ELSE [kind |-> "vm", pos |-> i - nCont, gen |-> g]]

AlwaysAsksNetwork(set, old, i) == 0
\* The suffix Create passes to net.Connect for container i: e.ips[i] when
\* e.ips != nil, none (0) otherwise.
RequestedSuffix(set, old, i) == IF set THEN old[i] ELSE 0

\* if e.ips == nil { e.ips = newIps }
RecordIps(set, old, new) == IF set THEN old ELSE new

\* What a Create call can run into: nothing, or the first failing backend call.
CreateOutcomes ==
  {<<"nil", 0>>}
  \cup {<<"createContainer", k>> : k \in 1..nCont}
  \cup {<<"connect", k>> : k \in 1..nCont}
  \cup {<<"getCopy", k>> : k \in 1..nVm}

ExCreate ==
  /\ exst = "built" /\ ops < MaxOps
  /\ \E o \in CreateOutcomes,
        asg \in [1..nCont -> 1..MaxSuffix] :  \* what the network would assign
       LET \* containers whose Connect was called / that were fully processed
           nConn == CASE o[1] = "createContainer" -> o[2] - 1
                      [] o[1] = "connect" -> o[2]
                      [] OTHER -> nCont
           nDone == CASE o[1] = "createContainer" -> o[2] - 1
                      [] o[1] = "connect" -> o[2] - 1
                      [] OTHER -> nCont
           conn == [i \in 1..nConn |-> RequestedSuffix(ipsSet, ips, i)]
           lastDigit(i) == IF conn[i] # 0 THEN conn[i] ELSE asg[i]
           newIps == [i \in 1..nDone |-> asg[i]]
       IN  /\ dnsRecords' = dnsRecords \o [i \in 1..nDone |-> lastDigit(i)]
           /\ lastOp' = [name |-> "Create", err |-> o[1], at |-> o[2],
                         started |-> <<>>, closedM |-> <<>>, conn |-> conn]
           /\ IF o[1] = "nil"
              THEN /\ ips' = RecordIps(ipsSet, ips,
                                       IF ipsSet THEN <<>> ELSE newIps)
                   /\ ipsSet' = (ipsSet \/ nCont > 0)
                   /\ machines' = NewMachines(gen + 1)
              ELSE UNCHANGED <<ips, ipsSet, machines>>
  /\ gen' = gen + 1 /\ ops' = ops + 1
  /\ UNCHANGED <<exst, nCont, nVm, running>>
  /\ UNCHANGED hubAll

\* The machines a loop over ms calls before it returns: all of them, or
\* those up to and including the first failing one.
Called(ms, j) == IF j = 0 THEN ms ELSE SubSeq(ms, 1, j)
\* ... and those whose call succeeded.
Succeeded(ms, j) == IF j = 0 THEN SeqSet(ms) ELSE {ms[i] : i \in 1..(j - 1)}

\* for _, m := range e.machines { if err := m.Start(); err != nil { return err } }
ExStart ==
  /\ exst = "built" /\ ops < MaxOps
  /\ \E j \in 0..Len(machines) :
       /\ running' = running \cup Succeeded(machines, j)
       /\ lastOp' = [name |-> "Start", err |-> IF j = 0 THEN "nil" ELSE "start",
                     at |-> j, started |-> Called(machines, j),
                     closedM |-> <<>>, conn |-> <<>>]
  /\ ops' = ops + 1
  /\ UNCHANGED <<exst, nCont, nVm, machines, ips, ipsSet, dnsRecords, gen>>
  /\ UNCHANGED hubAll

\* for _, m := range e.machines { if err := m.Close(); err != nil { return err } }
ExStop ==
  /\ exst = "built" /\ ops < MaxOps
  /\ \E j \in 0..Len(machines) :
       /\ running' = running \ Succeeded(machines, j)
       /\ lastOp' = [name |-> "Stop", err |-> IF j = 0 THEN "nil" ELSE "close",
                     at |-> j, started |-> <<>>,
                     closedM |-> Called(machines, j), conn |-> <<>>]
  /\ ops' = ops + 1
  /\ UNCHANGED <<exst, nCont, nVm, machines, ips, ipsSet, dnsRecords, gen>>
  /\ UNCHANGED hubAll

ClearsAnyway(ms, j) == <<>>
\* e.machines = nil, reached only when no Close failed
AfterClose(ms, j) == IF j = 0 THEN <<>> ELSE ms

ExClose ==
  /\ exst = "built" /\ ops < MaxOps
  /\ \E j \in 0..Len(machines) :
       /\ running' = running \ Succeeded(machines, j)
       /\ machines' = AfterClose(machines, j)
       /\ lastOp' = [name |-> "Close", err |-> IF j = 0 THEN "nil" ELSE "close",
                     at |-> j, started |-> <<>>,
                     closedM |-> Called(machines, j), conn |-> <<>>]
  /\ ops' = ops + 1
  /\ UNCHANGED <<exst, nCont, nVm, ips, ipsSet, dnsRecords, gen>>
  /\ UNCHANGED hubAll

StartsRegardless(js) == TRUE
\* if err := e.Stop(); err != nil { return err }: Start runs only after a
\* Stop without error.
ResetStarts(js) == js = 0

ExReset ==
  /\ exst = "built" /\ ops < MaxOps
  /\ \E js \in 0..Len(machines), jt \in 0..Len(machines) :
       LET stopped == running \ Succeeded(machines, js)
       IN  IF ResetStarts(js)
           THEN /\ running' = stopped \cup Succeeded(machines, jt)
                /\ lastOp' = [name |-> "Reset",
                              err |-> IF js # 0 THEN "close"
                                      ELSE IF jt = 0 THEN "nil" ELSE "start",
                              at |-> IF js # 0 THEN js ELSE jt,
                              started |-> Called(machines, jt),
                              closedM |-> Called(machines, js), conn |-> <<>>]
           ELSE /\ running' = stopped
                /\ lastOp' = [name |-> "Reset", err |-> "close", at |-> js,
                              started |-> <<>>,
                              closedM |-> Called(machines, js), conn |-> <<>>]
  /\ ops' = ops + 1
  /\ UNCHANGED <<exst, nCont, nVm, machines, ips, ipsSet, dnsRecords, gen>>
  /\ UNCHANGED hubAll

ExNext == NewExercise \/ ExCreate \/ ExStart \/ ExStop \/ ExClose \/ ExReset

ExSpec == Init /\ [][ExNext]_vars

\* ------------------------------------------------------------------ Spec
Next ==
  \/ NewHub \/ InitReturn \/ AddLab \/ Get \/ Close
  \/ HubLabClose \/ HalfLabClose

Spec == Init /\ [][Next]_vars

\* Construction only: NewHub, the addLab tasks init spawned, and its return.
\* Every step of a goroutine that can run is eventually run.
InitNext == NewHub \/ InitReturn \/ AddLab \/ HalfLabClose

InitSpec ==
  /\ Init /\ [][InitNext]_vars
  /\ WF_vars(InitReturn)
  /\ WF_vars(AddLabCheck) /\ WF_vars(AddLabClaimMax)
  /\ WF_vars(AddLabClaimCreate) /\ WF_vars(AddLabNewLab)
  /\ WF_vars(AddLabStart) /\ WF_vars(AddLabSend) /\ WF_vars(AddLabInc)
  /\ WF_vars(AddLabRelease)

TypeOK ==
  /\ hubst \in {"new", "rejected", "init", "ready"}
  /\ createSema \in 0..createLimit
  /\ maximumSema \in 0..MaxCap + 1
  /\ Len(closeCalls) = nextLab

\* ============================================================== properties
Built == hubst \in {"init", "ready"}
Received == {i \in 1..Len(getLog) : getLog[i] # 0}
\* addLab tasks that hold a capacity permit and have not finished construction
Constructing == tasks["claimCreate"] + tasks["newLab"] + tasks["start"]
                + tasks["send"]
GetBegins == Len(getLog') = Len(getLog) + 1
GetResult == getLog'[Len(getLog')]
GetDecrements == \E g \in gets : g.pc = "dec" /\ g \notin gets'
GetLoads == \E g \in gets : g.pc = "load" /\ g \notin gets'
GetReturns == Len(returned') = Len(returned) + 1

\* C1: in every state of a constructed pool the counter read by Available()
\* is at least 0, at most the warm size and at most the hard cap.
C1_AvailableInRange ==
  Built => (numbLabs >= 0 /\ numbLabs <= available /\ numbLabs <= cap)

\* C2: labs in the warm buffer, plus labs handed out by Get, plus addLab tasks
\* between claiming a capacity permit and finishing construction, never
\* exceed the hard cap.
C2_PermitBound ==
  Built => Len(buffer) + Cardinality(Received) + Constructing <= cap

C2_Witness ==
  /\ cap >= 3 /\ Len(buffer) >= 1 /\ Cardinality(Received) >= 1
  /\ Constructing >= 1
  /\ Len(buffer) + Cardinality(Received) + Constructing = cap

\* C3: a Get call made when Available() is 0 returns MaximumLabsErr and does
\* not change the dispensed-lab list, also while an addLab task is running.
C3_EmptyCounterRefuses ==
  [][(GetBegins /\ numbLabs = 0) => (GetResult = 0 /\ labs' = labs)]_vars

\* C4: a successful Get takes exactly one lab out of the buffer, lowers the
\* counter by exactly 1 in its own step, and appends exactly one entry, the
\* lab it returns, to the dispensed-lab list.
C4_GetFrame ==
  [][/\ (GetBegins /\ GetResult # 0) =>
          (buffer = <<GetResult>> \o buffer' /\ numbLabs' = numbLabs)
     /\ GetDecrements => numbLabs' = numbLabs - 1
     /\ GetReturns => labs' = Append(labs, returned'[Len(returned')])]_vars

\* C5: after any interleaving of Get calls the dispensed-lab list holds every
\* lab a Get returned, exactly once and in dispense order.
C5_ListKeepsEveryLab == labs = returned

\* C6 (as claimed): warm size 2, hard cap 5, no construction failure: two
\* sequential Get calls succeed, Available() is 0 after the second and a
\* third Get returns MaximumLabsErr, whatever the replenishment tasks do.
Scenario25 == available = 2 /\ cap = 5 /\ failures = 0 /\ hubst = "ready"

C6_ThirdGetRefused ==
  (Scenario25 /\ ~overlap) =>
     /\ \A i \in 1..Len(getLog) : i <= 2 => getLog[i] # 0
     /\ (Len(getLog) = 2 /\ gets = {}) => numbLabs = 0
     /\ Len(getLog) >= 3 => getLog[3] = 0

\* C6 (amended): ... Available() is 0 after the second Get and a third Get
\* returns MaximumLabsErr as long as no replenishment task has put a lab in
\* the buffer; the first two Get calls succeed in every case.
C6_ThirdGetRefusedUnlessReplenished ==
  /\ []((Scenario25 /\ ~overlap) =>
          /\ \A i \in 1..Len(getLog) : i <= 2 => getLog[i] # 0
          /\ (Len(getLog) = 2 /\ gets = {} /\ nextLab = 2) => numbLabs = 0)
  /\ [][(Scenario25 /\ ~overlap /\ gets = {} /\ Len(getLog) = 2 /\ GetBegins
          /\ nextLab = 2) => GetResult = 0]_vars

C6_Witness ==
  /\ Scenario25 /\ ~overlap /\ Len(getLog) = 3 /\ getLog[3] = 0
  /\ returned = <<1, 2>> /\ InFlight = 2 /\ numbLabs = 0

\* C7: Close calls Close on every lab of the dispensed list and on every lab
\* that was in the buffer when Close ran, and returns only after all of
\* these calls have completed, also when some of them returned an error.
C7_CloseClosesAll ==
  closest = "done" =>
     /\ \A l \in SeqSet(closeSnap) \cup SeqSet(bufAtClose) :
           l \in DOMAIN closeCalls /\ closeCalls[l] >= 1
     /\ closeWg = 0

C7_Witness ==
  /\ closest = "done" /\ closeFailed
  /\ Len(closeSnap) >= 1 /\ Len(bufAtClose) >= 1

\* C8: NewHub with warm size <= hard cap eventually returns a pool; it
\* returns only after every initial addLab task has finished, and a failed
\* task does not make it fail.
C8_NewHubReturns ==
  /\ (hubst = "init") ~> (hubst = "ready")
  /\ [][(hubst = "init" /\ hubst' = "ready") => (InFlight = 0 /\ wg = 0)]_vars

C8_Witness ==
  /\ hubst = "ready" /\ available > createLimit /\ failures >= 1
  /\ numbLabs = available - 1

\* C9 (as claimed): a successful Get schedules exactly one addLab task when
\* the counter it reads after its decrement is at or below BUFFERSIZE, and
\* none otherwise.
C9_ReplenishAtOrBelowMark ==
  [][GetLoads => tasks' = (IF numbLabs <= BUFFERSIZE THEN Spawn(tasks, 1)
                                                      ELSE tasks)]_vars

\* C9 (amended): a successful Get schedules exactly one addLab task when the
\* counter it reads after its decrement is strictly below BUFFERSIZE, and
\* none otherwise; it goes on to return without waiting for that task.
C9_ReplenishBelowMark ==
  [][GetLoads => tasks' = (IF numbLabs < BUFFERSIZE THEN Spawn(tasks, 1)
                                                     ELSE tasks)]_vars

C9_Witness ==
  /\ Len(getLog) = 1 /\ numbLabs = BUFFERSIZE /\ InFlight = 0
  /\ \E g \in gets : g.pc = "read"

\* C10: NewHub with warm size above the hard cap returns AvailableSizeErr and
\* attempts no construction: no semaphore permit is claimed, no addLab task
\* is started and the lab factory is not called.
C10_OversizeRejected ==
  (hubst # "new" /\ available > cap) =>
     /\ hubst = "rejected"
     /\ InFlight = 0 /\ factoryCalls = 0 /\ nextLab = 0
     /\ createSema = 0 /\ maximumSema = 0 /\ buffer = <<>> /\ numbLabs = 0

C10_Witness == hubst = "rejected" /\ available = cap + 1 /\ cap >= 1

\* ------------------------------------------------------ exercise claims
ExCall(n) == ops' = ops + 1 /\ lastOp'.name = n

\* C11 (as claimed): if Reset's stop phase fails no machine is started; if
\* the stop phase succeeds and the start phase fails, Reset returns the error
\* and no machine of the exercise is running.
C11_FailedResetLeavesStopped ==
  lastOp.name = "Reset" =>
     /\ lastOp.err = "close" => lastOp.started = <<>>
     /\ lastOp.err = "start" => SeqSet(machines) \cap running = {}

\* C11 (amended): if Reset's stop phase fails no machine is started; if the
\* stop phase succeeds and the start phase fails at machine j, Reset returns
\* the error, machine j and the machines after it are not running, and the
\* machines before j are left running.
C11_FailedResetLeavesPrefixRunning ==
  lastOp.name = "Reset" =>
     /\ lastOp.err = "close" => lastOp.started = <<>>
     /\ lastOp.err = "start" =>
          /\ lastOp.closedM = machines
          /\ \A i \in 1..Len(machines) :
                (machines[i] \in running) <=> (i < lastOp.at)

C11_Witness ==
  /\ lastOp.name = "Reset" /\ lastOp.err = "start" /\ lastOp.at = 3
  /\ {machines[1], machines[2]} \subseteq running

\* C12: after every successful Create, the first or a later one, the machine
\* list holds one fresh instance per container spec followed by one per VM
\* spec, in blueprint order, and e.ips has one entry per container spec.
C12_CreateShape ==
  (lastOp.name = "Create" /\ lastOp.err = "nil") =>
     /\ Len(machines) = nCont + nVm
     /\ \A i \in 1..Len(machines) :
          /\ machines[i].gen = gen
          /\ i <= nCont => (machines[i].kind = "container" /\ machines[i].pos = i)
          /\ i > nCont => (machines[i].kind = "vm" /\ machines[i].pos = i - nCont)
     /\ (IF ipsSet THEN Len(ips) ELSE 0) = nCont

C12_Witness ==
  /\ lastOp.name = "Create" /\ lastOp.err = "nil" /\ gen >= 2
  /\ nCont = MaxContainers /\ nVm = MaxVMs /\ Len(dnsRecords) > nCont

\* C13: once a Create has succeeded, no later call changes the recorded IP
\* suffixes, and every later Create connects the container at position i
\* with the suffix recorded for position i, not with one the network picks.
C13_SuffixesReused ==
  [][ipsSet =>
       /\ ipsSet' /\ ips' = ips
       /\ ExCall("Create") =>
            \A i \in 1..Len(lastOp'.conn) : lastOp'.conn[i] = ips[i]]_vars

C13_Witness ==
  /\ lastOp.name = "Create" /\ lastOp.err = "nil" /\ gen >= 3
  /\ nCont = 2 /\ lastOp.conn = ips /\ ips = <<2, 1>>

\* C14: Close closes the machines in list order; if every close succeeds it
\* returns nil and the machine list is empty; if the close of machine j
\* fails it returns that error, the machines after j are not closed and the
\* machine list is left as it was.
C14_CloseAllOrNothing ==
  [][ExCall("Close") =>
       IF lastOp'.err = "nil"
       THEN /\ lastOp'.closedM = machines /\ machines' = <<>>
            /\ SeqSet(machines) \cap running' = {}
       ELSE /\ lastOp'.at \in 1..Len(machines)
            /\ lastOp'.closedM = SubSeq(machines, 1, lastOp'.at)
            /\ machines' = machines
            /\ \A i \in (lastOp'.at)..Len(machines) :
                  (machines[i] \in running') <=> (machines[i] \in running)]_vars

C14_Witness ==
  /\ lastOp.name = "Close" /\ lastOp.err = "close" /\ lastOp.at = 2
  /\ Len(machines) = 3 /\ machines[3] \in running /\ machines[1] \notin running

\* ----------------------------------------------------- hub claims, cont.
\* addLab tasks that hold a creation permit
Holding == tasks["newLab"] + tasks["start"] + tasks["send"] + tasks["inc"]
           + tasks["release"]
\* labs that were numbered without ever entering the buffer or being dropped:
\* the ones whose Start failed
HalfBuilt == (1..nextLab) \ (SeqSet(buffer) \cup SeqSet(getLog)
                             \cup SeqSet(bufAtClose) \cup dropped)
ConstructionFails == failures' = failures + 1

\* C15: addLab never blocks waiting for a capacity permit: with no permit
\* left every addLab task returns MaximumLabsErr, so no task ever sits in
\* maximumSema.claim() on an empty semaphore.
C15_NeverWaitsForPermit == tasks["claimMax"] > 0 => maximumSema > 0

\* C16: an addLab task that reaches its enqueue step after Close has closed
\* the buffer drops its lab and returns; no interleaving of addLab and Close
\* ends in a fault.
C16_NoFaultAfterClose == ~fault

\* C17: at most createLimit (3) addLab tasks hold a creation permit at any
\* time and every task that claimed one gives it back when it returns, so
\* the permits not held by a running task are all in the semaphore.
C17_CreationPermits ==
  Built => /\ Holding <= createLimit
           /\ createSema = createLimit - Holding
           /\ InFlight = 0 => createSema = createLimit

C17_Witness ==
  /\ Holding = createLimit /\ createSema = 0 /\ tasks["claimCreate"] >= 1
  /\ tasks["release"] >= 1 /\ failures >= 1

\* C18: when NewLab or Start fails inside addLab, addLab returns the error
\* without reaching the enqueue; the capacity permit stays claimed, buffer
\* and counter are unchanged; after a failed Start the half-built lab gets
\* exactly one asynchronous Close call and is never enqueued or dispensed.
C18_FailedConstruction ==
  /\ [][ConstructionFails =>
          /\ maximumSema' = maximumSema /\ buffer' = buffer
          /\ numbLabs' = numbLabs /\ createSema' = createSema
          /\ tasks'["release"] = tasks["release"] + 1
          /\ tasks'["send"] = tasks["send"]
          /\ nextLab' # nextLab =>
               /\ nextLab' \in HalfBuilt'
               /\ closeCalls'[nextLab'] = 1
               /\ halfClosing' = halfClosing + 1]_vars
  /\ [](\A l \in HalfBuilt : closeCalls[l] = 1 /\ l \notin SeqSet(labs))

C18_Witness ==
  /\ HalfBuilt # {} /\ halfClosing = 0 /\ closest = "done"
  /\ Len(closeSnap) >= 1 /\ maximumSema < cap - Len(closeSnap) - Len(bufAtClose)

\* C19: capacity permits are never returned: the semaphore only goes down,
\* at most cap addLab tasks get past the claim and at most cap labs are ever
\* constructed; once all permits are claimed, the buffer is empty and no
\* task is constructing, the buffer stays empty and every Get returns
\* MaximumLabsErr.
Exhausted == Built /\ maximumSema = 0 /\ buffer = <<>> /\ Constructing = 0

C19_PermitsNeverReturned ==
  /\ [](Built => (maximumSema \in 0..cap /\ factoryCalls <= cap - maximumSema))
  /\ [][Built => maximumSema' <= maximumSema]_vars
  /\ [][Exhausted => /\ Exhausted'
                     /\ factoryCalls' = factoryCalls
                     /\ GetBegins => GetResult = 0]_vars

C19_Witness ==
  /\ Exhausted /\ cap >= 2 /\ factoryCalls = cap /\ tasks["claimMax"] >= 1
  /\ Len(getLog) >= 2 /\ getLog[Len(getLog)] = 0 /\ getLog[1] # 0

\* C20: before Close, the buffer is never full when an addLab task reaches
\* its enqueue step, so no lab is ever dropped: every lab that was built and
\* started is enqueued.
C20_NeverDropped ==
  /\ dropped = {}
  /\ (tasks["send"] > 0 /\ ~closed) => Len(buffer) + tasks["send"] <= available

C20_Witness ==
  /\ available >= 2 /\ Len(buffer) = available /\ nextLab > available
  /\ dropped = {} /\ ~closed /\ failures = 0

====
